---- MODULE Spec2Model ----
(***************************************************************************)
(* Model of the MSP430x2xx watchdog library (watchdog.c).                  *)
(*                                                                         *)
(* The main line of execution calls the library's operations one at a     *)
(* time.  Each operation is split at its accesses to shared state (the     *)
(* WDTCTL register, IE1, the callback slot), because the watchdog          *)
(* interrupt and the hardware timeout can happen between any two           *)
(* instructions.  The build modelled is the default one, with the          *)
(* interrupt service routine compiled in (NO_WDT_ISR not defined).         *)
(***************************************************************************)
EXTENDS Integers, Sequences, FiniteSets, TLC

VARIABLES
    WDTCTL,                 \* the 16-bit value a read of the register returns
    IE1,                    \* interrupt enable register 1
    WDTIFG,                 \* the watchdog interrupt flag (1 = pending)
    watchdogFunctionToCall, \* the callback slot, 0 = unset (null)
    pc,                     \* position of the main line
    op,                     \* operation in progress, or the last completed
    clocksource, divider, function, mode, edge,   \* arguments of the call
    tempwdt,                \* local: low byte read from WDTCTL
    watchdogbits,           \* local of the two start operations
    ret,                    \* value returned by the last call, -1 = none
    pre,                    \* value of WDTCTL when the call was made
    again,                  \* the call directly follows a call of the same op
    writes,                 \* number of WDTCTL writes made by the call
    lastWrite,              \* last value written to WDTCTL, -1 = none
    invoked                 \* function the interrupt routine is calling, -1 = not in the routine

vars == <<WDTCTL, IE1, WDTIFG, watchdogFunctionToCall, pc, op, clocksource,
          divider, function, mode, edge, tempwdt, watchdogbits, ret, pre,
          again, writes, lastWrite, invoked>>

-----------------------------------------------------------------------------
(* Register bits and keys.                                                 *)

WDTPW == 23040       \* 0x5A00, the write key
WDTRDKEY == 26880    \* 0x6900, upper byte of every read
WDTHOLD == 128
WDTNMIES == 64
WDTNMI == 32
WDTTMSEL == 16
WDTCNTCL == 8
WDTSSEL == 4
WDTIS_1 == 1
WDTIS_2 == 2
WDTIS_3 == 3
WDTIE == 1

ACLK == 1
SMCLK == 2
NMI == 1
FALLING == 1

Word == 65536

-----------------------------------------------------------------------------
(* 16-bit integer arithmetic of the target.                                *)

RECURSIVE OrBits(_, _, _)
OrBits(a, b, n) ==
    IF n = 0 THEN 0
    ELSE 2 * OrBits(a \div 2, b \div 2, n - 1)
         + (IF a % 2 = 1 \/ b % 2 = 1 THEN 1 ELSE 0)

RECURSIVE AndBits(_, _, _)
AndBits(a, b, n) ==
    IF n = 0 THEN 0
    ELSE 2 * AndBits(a \div 2, b \div 2, n - 1) + ((a % 2) * (b % 2))

\* The two operations on bytes, tabulated, and on 16-bit words.
OrByte == [a \in 0..255 |-> [b \in 0..255 |-> OrBits(a, b, 8)]]
AndByte == [a \in 0..255 |-> [b \in 0..255 |-> AndBits(a, b, 8)]]
Or(a, b) == 256 * OrByte[a \div 256][b \div 256] + OrByte[a % 256][b % 256]
And(a, b) == 256 * AndByte[a \div 256][b \div 256] + AndByte[a % 256][b % 256]
Not(a) == (Word - 1) - a
Add(a, b) == (a + b) % Word

\* Mutant: the conversion forgotten, the whole word kept.
UCharNoCast(x) == x

\* The conversion (unsigned char)x.
UChar(x) == x % 256

\* b is a single-bit mask.
HasBit(x, b) == (x \div b) % 2 = 1

-----------------------------------------------------------------------------
(* Inputs.                                                                 *)

ClockSources == {0, ACLK, SMCLK}
Dividers == {0, 64, 512, 8192, 8912, 32768}
\* The callbacks the application may register are numbered 1..NumFunctions.
NumFunctions == 2
Functions == 1..NumFunctions
Modes == {0, NMI}
Edges == {0, FALLING}

-----------------------------------------------------------------------------
(* The hardware.                                                           *)

\* State after power-on, or after a power-up clear (PUC).  A PUC restarts
\* the program: the register and IE1 take their reset values and the C
\* start-up code zeroes the callback slot.
Restart(ifg, lw, inv) ==
    /\ WDTCTL' = WDTRDKEY
    /\ IE1' = 0
    /\ WDTIFG' = ifg
    /\ watchdogFunctionToCall' = 0
    /\ pc' = "idle"
    /\ op' = "none"
    /\ clocksource' = 0 /\ divider' = 0 /\ function' = 0
    /\ mode' = 0 /\ edge' = 0
    /\ tempwdt' = 0 /\ watchdogbits' = 0
    /\ ret' = -1
    /\ pre' = WDTRDKEY
    /\ again' = FALSE
    /\ writes' = 0
    /\ lastWrite' = lw
    /\ invoked' = inv

\* What the register retains of a written value: the low byte without the
\* self-clearing count-clear bit, read back under the read key.
Retained(v) == WDTRDKEY + And(v % 256, 255 - WDTCNTCL)

\* A write of v to WDTCTL, the n-th of its call.  A write without the key in
\* the upper byte is a security key violation and forces a PUC; otherwise
\* the register takes v and the rest of the step (rest) happens.
WriteWDTCTL(v, n, rest) ==
    IF v \div 256 = WDTPW \div 256
    THEN /\ WDTCTL' = Retained(v)
         /\ lastWrite' = v
         /\ writes' = n
         /\ rest
    ELSE Restart(1, v, invoked)

\* The main line is at l and is not preempted by the interrupt routine.
At(l) == pc = l /\ invoked = -1

\* The start of a call from the main line.
Call(name, c, d, f, m, e) ==
    /\ op' = name
    /\ again' = (op = name)
    /\ pre' = WDTCTL
    /\ clocksource' = c /\ divider' = d /\ function' = f
    /\ mode' = m /\ edge' = e

\* The return of a call.
Return(r) ==
    /\ pc' = "idle"
    /\ ret' = r
    /\ tempwdt' = 0
    /\ watchdogbits' = 0

\* The first step of a read-modify-write operation: the read of the low byte.
ReadLowByte(name, m, e, next) ==
    /\ Call(name, 0, 0, 0, m, e)
    /\ tempwdt' = UChar(WDTCTL)
    /\ pc' = next
    /\ ret' = -1
    /\ writes' = 0
    /\ UNCHANGED <<WDTCTL, IE1, WDTIFG, watchdogFunctionToCall,
                   watchdogbits, lastWrite, invoked>>

Running == ~HasBit(WDTCTL, WDTHOLD)

\* The counter expires.  In interval-timer mode this raises the interrupt
\* flag; in watchdog mode it resets the system.
Timeout ==
    /\ Running
    /\ IF HasBit(WDTCTL, WDTTMSEL)
       THEN /\ WDTIFG' = 1
            /\ UNCHANGED <<WDTCTL, IE1, watchdogFunctionToCall, pc, op,
                           clocksource, divider, function, mode, edge,
                           tempwdt, watchdogbits, ret, pre, again, writes,
                           lastWrite, invoked>>
       ELSE Restart(1, -1, -1)

Init ==
    /\ WDTCTL = WDTRDKEY
    /\ IE1 = 0
    /\ WDTIFG = 0
    /\ watchdogFunctionToCall = 0
    /\ At("idle")
    /\ op = "none"
    /\ clocksource = 0 /\ divider = 0 /\ function = 0
    /\ mode = 0 /\ edge = 0
    /\ tempwdt = 0 /\ watchdogbits = 0
    /\ ret = -1
    /\ pre = WDTRDKEY
    /\ again = FALSE
    /\ writes = 0
    /\ lastWrite = -1
    /\ invoked = -1

-----------------------------------------------------------------------------
(* detectWatchdog                                                          *)

detectWatchdog_read ==
    /\ At("idle")
    /\ ReadLowByte("detect", 0, 0, "detect_write")

detectWatchdog_write ==
    /\ At("detect_write")
    /\ WriteWDTCTL(Add(WDTPW, Or(tempwdt, WDTHOLD)), 1,
          /\ pc' = "detect_test"
          /\ UNCHANGED <<IE1, WDTIFG, watchdogFunctionToCall, op,
                         clocksource, divider, function, mode, edge,
                         tempwdt, watchdogbits, ret, pre, again, invoked>>)

\* Mutant: the test made on the byte read before the write.
detectWatchdog_test_stale ==
    /\ At("detect_test")
    /\ Return(IF tempwdt > 0 THEN 1 ELSE 0)
    /\ UNCHANGED <<WDTCTL, IE1, WDTIFG, watchdogFunctionToCall, op,
                   clocksource, divider, function, mode, edge, pre, again,
                   writes, lastWrite, invoked>>

detectWatchdog_test ==
    /\ At("detect_test")
    /\ Return(IF UChar(WDTCTL) > 0 THEN 1 ELSE 0)
    /\ UNCHANGED <<WDTCTL, IE1, WDTIFG, watchdogFunctionToCall, op,
                   clocksource, divider, function, mode, edge, pre, again,
                   writes, lastWrite, invoked>>

-----------------------------------------------------------------------------
(* holdWatchdog                                                            *)

holdWatchdog_read ==
    /\ At("idle")
    /\ ReadLowByte("hold", 0, 0, "hold_write")

\* Mutant: the write of the hold bit alone, the bits read dropped.
holdWatchdog_write_dropBits ==
    /\ At("hold_write")
    /\ WriteWDTCTL(Add(WDTPW, WDTHOLD), 1,
          /\ Return(-1)
          /\ UNCHANGED <<IE1, WDTIFG, watchdogFunctionToCall, op,
                         clocksource, divider, function, mode, edge,
                         pre, again, invoked>>)

holdWatchdog_write ==
    /\ At("hold_write")
    /\ WriteWDTCTL(Add(WDTPW, Or(tempwdt, WDTHOLD)), 1,
          /\ Return(-1)
          /\ UNCHANGED <<IE1, WDTIFG, watchdogFunctionToCall, op,
                         clocksource, divider, function, mode, edge,
                         pre, again, invoked>>)

-----------------------------------------------------------------------------
(* The validation shared, as identical code, by the two start operations.  *)

ClockOK(c) == c = ACLK \/ c = SMCLK

\* Mutant: the clock-source bit set for SMCLK instead of ACLK.
SelectClockSwapped(c, bits) == IF c = SMCLK THEN Or(bits, WDTSSEL) ELSE bits

SelectClock(c, bits) == IF c = ACLK THEN Or(bits, WDTSSEL) ELSE bits

DividerOK(d) == d \in {64, 512, 8912, 32768}

SelectDivider(d, bits) ==
    CASE d = 64 -> Or(bits, WDTIS_3)
      [] d = 512 -> Or(bits, WDTIS_2)
      [] d = 8912 -> Or(bits, WDTIS_1)
      [] OTHER -> bits

\* Mutant: the divider checked before the clock source.
StatusDividerFirst(c, d) ==
    IF ~DividerOK(d) THEN 2
    ELSE IF ~ClockOK(c) THEN 1
    ELSE 0

\* The status the checks return: the clock source is checked first.
Status(c, d) ==
    IF ~ClockOK(c) THEN 1
    ELSE IF ~DividerOK(d) THEN 2
    ELSE 0

-----------------------------------------------------------------------------
(* startWatchdog                                                           *)

startWatchdog_hold(c, d) ==
    /\ At("idle")
    /\ WriteWDTCTL(Add(WDTPW, WDTHOLD), 1,
          /\ Call("startWatchdog", c, d, 0, 0, 0)
          /\ tempwdt' = 0
          /\ IF Status(c, d) # 0
             THEN /\ pc' = "idle"
                  /\ ret' = Status(c, d)
                  /\ watchdogbits' = 0
             ELSE /\ pc' = "startWatchdog_commit"
                  /\ ret' = -1
                  /\ watchdogbits' =
                        SelectDivider(d, SelectClock(c, Or(WDTHOLD, WDTCNTCL)))
          /\ UNCHANGED <<IE1, WDTIFG, watchdogFunctionToCall, invoked>>)

startWatchdog_commit ==
    /\ At("startWatchdog_commit")
    /\ WriteWDTCTL(Or(WDTPW, watchdogbits), 2,
          /\ Return(0)
          /\ UNCHANGED <<IE1, WDTIFG, watchdogFunctionToCall, op,
                         clocksource, divider, function, mode, edge,
                         pre, again, invoked>>)

-----------------------------------------------------------------------------
(* resetWatchdog, clearWatchdog, holdWatchdogTimer                         *)

\* Mutant: the low byte read and written back with the password.
resetWatchdog_keepBits ==
    /\ At("idle")
    /\ WriteWDTCTL(Add(WDTPW, UChar(WDTCTL)), 1,
          /\ Call("reset", 0, 0, 0, 0, 0)
          /\ Return(-1)
          /\ UNCHANGED <<IE1, WDTIFG, watchdogFunctionToCall, invoked>>)

resetWatchdog ==
    /\ At("idle")
    /\ WriteWDTCTL(WDTPW, 1,
          /\ Call("reset", 0, 0, 0, 0, 0)
          /\ Return(-1)
          /\ UNCHANGED <<IE1, WDTIFG, watchdogFunctionToCall, invoked>>)

clearWatchdog_read ==
    /\ At("idle")
    /\ ReadLowByte("clear", 0, 0, "clear_write")

\* Mutant: the write of the count-clear bit alone, the bits read dropped.
clearWatchdog_write_dropBits ==
    /\ At("clear_write")
    /\ WriteWDTCTL(Add(WDTPW, WDTCNTCL), 1,
          /\ Return(-1)
          /\ UNCHANGED <<IE1, WDTIFG, watchdogFunctionToCall, op,
                         clocksource, divider, function, mode, edge,
                         pre, again, invoked>>)

clearWatchdog_write ==
    /\ At("clear_write")
    /\ WriteWDTCTL(Add(WDTPW, Or(tempwdt, WDTCNTCL)), 1,
          /\ Return(-1)
          /\ UNCHANGED <<IE1, WDTIFG, watchdogFunctionToCall, op,
                         clocksource, divider, function, mode, edge,
                         pre, again, invoked>>)

holdWatchdogTimer_read ==
    /\ At("idle")
    /\ ReadLowByte("holdTimer", 0, 0, "holdTimer_write")

\* Mutant: the watchdog interrupt disabled as well.
holdWatchdogTimer_write_clearsIE ==
    /\ At("holdTimer_write")
    /\ WriteWDTCTL(Add(WDTPW, Or(tempwdt, WDTHOLD)), 1,
          /\ Return(-1)
          /\ IE1' = And(IE1, Not(WDTIE))
          /\ UNCHANGED <<WDTIFG, watchdogFunctionToCall, op,
                         clocksource, divider, function, mode, edge,
                         pre, again, invoked>>)

\* Mutant: the write of the hold bit alone, the bits read dropped.
holdWatchdogTimer_write_dropBits ==
    /\ At("holdTimer_write")
    /\ WriteWDTCTL(Add(WDTPW, WDTHOLD), 1,
          /\ Return(-1)
          /\ UNCHANGED <<IE1, WDTIFG, watchdogFunctionToCall, op,
                         clocksource, divider, function, mode, edge,
                         pre, again, invoked>>)

holdWatchdogTimer_write ==
    /\ At("holdTimer_write")
    /\ WriteWDTCTL(Add(WDTPW, Or(tempwdt, WDTHOLD)), 1,
          /\ Return(-1)
          /\ UNCHANGED <<IE1, WDTIFG, watchdogFunctionToCall, op,
                         clocksource, divider, function, mode, edge,
                         pre, again, invoked>>)

-----------------------------------------------------------------------------
(* startWatchdogTimer                                                      *)

\* Mutant: the interrupt enabled before the arguments are checked.
startWatchdogTimer_hold_ieFirst(c, d, f) ==
    /\ At("idle")
    /\ WriteWDTCTL(Add(WDTPW, WDTHOLD), 1,
          /\ Call("startTimer", c, d, f, 0, 0)
          /\ tempwdt' = 0
          /\ IF Status(c, d) # 0
             THEN /\ pc' = "idle"
                  /\ ret' = Status(c, d)
                  /\ watchdogbits' = 0
             ELSE /\ pc' = "startTimer_ie"
                  /\ ret' = -1
                  /\ watchdogbits' =
                        SelectDivider(d, SelectClock(c, Or(WDTTMSEL, WDTCNTCL)))
          /\ IE1' = Or(IE1, WDTIE)
          /\ UNCHANGED <<WDTIFG, watchdogFunctionToCall, invoked>>)

startWatchdogTimer_hold(c, d, f) ==
    /\ At("idle")
    /\ WriteWDTCTL(Add(WDTPW, WDTHOLD), 1,
          /\ Call("startTimer", c, d, f, 0, 0)
          /\ tempwdt' = 0
          /\ IF Status(c, d) # 0
             THEN /\ pc' = "idle"
                  /\ ret' = Status(c, d)
                  /\ watchdogbits' = 0
             ELSE /\ pc' = "startTimer_ie"
                  /\ ret' = -1
                  /\ watchdogbits' =
                        SelectDivider(d, SelectClock(c, Or(WDTTMSEL, WDTCNTCL)))
          /\ UNCHANGED <<IE1, WDTIFG, watchdogFunctionToCall, invoked>>)

startWatchdogTimer_ie ==
    /\ At("startTimer_ie")
    /\ IE1' = Or(IE1, WDTIE)
    /\ pc' = "startTimer_store"
    /\ UNCHANGED <<WDTCTL, WDTIFG, watchdogFunctionToCall, op, clocksource,
                   divider, function, mode, edge, tempwdt, watchdogbits,
                   ret, pre, again, writes, lastWrite, invoked>>

startWatchdogTimer_store ==
    /\ At("startTimer_store")
    /\ watchdogFunctionToCall' = function
    /\ pc' = "startTimer_commit"
    /\ UNCHANGED <<WDTCTL, IE1, WDTIFG, op, clocksource, divider, function,
                   mode, edge, tempwdt, watchdogbits, ret, pre, again,
                   writes, lastWrite, invoked>>

startWatchdogTimer_commit ==
    /\ At("startTimer_commit")
    /\ WriteWDTCTL(Or(WDTPW, watchdogbits), 2,
          /\ Return(0)
          /\ UNCHANGED <<IE1, WDTIFG, watchdogFunctionToCall, op,
                         clocksource, divider, function, mode, edge,
                         pre, again, invoked>>)

-----------------------------------------------------------------------------
(* resetWatchdogTimer                                                      *)

resetWatchdogTimer_read ==
    /\ At("idle")
    /\ ReadLowByte("resetTimer", 0, 0, "resetTimer_write")

\* Mutant: the write of the mode bit alone, the bits read dropped.
resetWatchdogTimer_write_dropBits ==
    /\ At("resetTimer_write")
    /\ WriteWDTCTL(Add(WDTPW, WDTTMSEL), 1,
          /\ Return(-1)
          /\ UNCHANGED <<IE1, WDTIFG, watchdogFunctionToCall, op,
                         clocksource, divider, function, mode, edge,
                         pre, again, invoked>>)

resetWatchdogTimer_write ==
    /\ At("resetTimer_write")
    /\ WriteWDTCTL(Add(WDTPW, Or(tempwdt, WDTTMSEL)), 1,
          /\ Return(-1)
          /\ UNCHANGED <<IE1, WDTIFG, watchdogFunctionToCall, op,
                         clocksource, divider, function, mode, edge,
                         pre, again, invoked>>)

-----------------------------------------------------------------------------
(* resetPinMode                                                            *)

resetPinMode_read1(m, e) ==
    /\ At("idle")
    /\ ReadLowByte("pinMode", m, e, "pinMode_write1")

resetPinMode_write1 ==
    /\ At("pinMode_write1")
    /\ WriteWDTCTL(IF mode = NMI
                   THEN Add(WDTPW, Or(tempwdt, WDTNMI))
                   ELSE Add(WDTPW, And(tempwdt, Not(WDTNMI))), 1,
          /\ pc' = "pinMode_read2"
          /\ UNCHANGED <<IE1, WDTIFG, watchdogFunctionToCall, op,
                         clocksource, divider, function, mode, edge,
                         tempwdt, watchdogbits, ret, pre, again, invoked>>)

\* Mutant: the low byte not read again, the value read before the first
\* write reused.
resetPinMode_read2_stale ==
    /\ At("pinMode_read2")
    /\ pc' = "pinMode_write2"
    /\ UNCHANGED <<WDTCTL, IE1, WDTIFG, watchdogFunctionToCall, op,
                   clocksource, divider, function, mode, edge, tempwdt,
                   watchdogbits, ret, pre, again, writes, lastWrite, invoked>>

resetPinMode_read2 ==
    /\ At("pinMode_read2")
    /\ tempwdt' = UChar(WDTCTL)
    /\ pc' = "pinMode_write2"
    /\ UNCHANGED <<WDTCTL, IE1, WDTIFG, watchdogFunctionToCall, op,
                   clocksource, divider, function, mode, edge, watchdogbits,
                   ret, pre, again, writes, lastWrite, invoked>>

resetPinMode_write2 ==
    /\ At("pinMode_write2")
    /\ WriteWDTCTL(IF edge = FALLING
                   THEN Add(WDTPW, Or(tempwdt, WDTNMIES))
                   ELSE Add(WDTPW, And(tempwdt, Not(WDTNMIES))), 2,
          /\ Return(-1)
          /\ UNCHANGED <<IE1, WDTIFG, watchdogFunctionToCall, op,
                         clocksource, divider, function, mode, edge,
                         pre, again, invoked>>)

-----------------------------------------------------------------------------
(* The interrupt service routine.  It is entered when the watchdog         *)
(* interrupt is enabled in IE1 and the flag is pending; the flag is reset  *)
(* when the interrupt is serviced.  The routine calls the function in the  *)
(* slot and runs to completion before the main line resumes.  The callback *)
(* is application code that calls none of the operations above.            *)

\* Mutant: the routine also holds the watchdog, by a read-modify-write of
\* WDTCTL of its own.
watchdog_timer_isr_holds ==
    /\ invoked = -1
    /\ HasBit(IE1, WDTIE)
    /\ WDTIFG = 1
    /\ WDTIFG' = 0
    /\ invoked' = watchdogFunctionToCall
    /\ WDTCTL' = Retained(Add(WDTPW, Or(UChar(WDTCTL), WDTHOLD)))
    /\ UNCHANGED <<IE1, watchdogFunctionToCall, pc, op, clocksource,
                   divider, function, mode, edge, tempwdt, watchdogbits,
                   ret, pre, again, writes, lastWrite>>

watchdog_timer_isr ==
    /\ invoked = -1
    /\ HasBit(IE1, WDTIE)
    /\ WDTIFG = 1
    /\ WDTIFG' = 0
    /\ invoked' = watchdogFunctionToCall
    /\ UNCHANGED <<WDTCTL, IE1, watchdogFunctionToCall, pc, op, clocksource,
                   divider, function, mode, edge, tempwdt, watchdogbits,
                   ret, pre, again, writes, lastWrite>>

\* The callback returns and the routine ends.
watchdog_timer_isr_return ==
    /\ invoked > 0
    /\ invoked' = -1
    /\ UNCHANGED <<WDTCTL, IE1, WDTIFG, watchdogFunctionToCall, pc, op,
                   clocksource, divider, function, mode, edge, tempwdt,
                   watchdogbits, ret, pre, again, writes, lastWrite>>

\* The call went through the null pointer: the behaviour is undefined; the
\* call either comes back or the program restarts.
watchdog_timer_isr_null ==
    /\ invoked = 0
    /\ \/ /\ invoked' = -1
          /\ UNCHANGED <<WDTCTL, IE1, WDTIFG, watchdogFunctionToCall, pc, op,
                         clocksource, divider, function, mode, edge,
                         tempwdt, watchdogbits, ret, pre, again, writes,
                         lastWrite>>
       \/ Restart(WDTIFG, lastWrite, -1)

-----------------------------------------------------------------------------

Next ==
    \/ detectWatchdog_read
    \/ detectWatchdog_write
    \/ detectWatchdog_test
    \/ holdWatchdog_read
    \/ holdWatchdog_write
    \/ \E c \in ClockSources, d \in Dividers : startWatchdog_hold(c, d)
    \/ startWatchdog_commit
    \/ resetWatchdog
    \/ clearWatchdog_read
    \/ clearWatchdog_write
    \/ holdWatchdogTimer_read
    \/ holdWatchdogTimer_write
    \/ \E c \in ClockSources, d \in Dividers, f \in Functions :
          startWatchdogTimer_hold(c, d, f)
    \/ startWatchdogTimer_ie
    \/ startWatchdogTimer_store
    \/ startWatchdogTimer_commit
    \/ resetWatchdogTimer_read
    \/ resetWatchdogTimer_write
    \/ \E m \in Modes, e \in Edges : resetPinMode_read1(m, e)
    \/ resetPinMode_write1
    \/ resetPinMode_read2
    \/ resetPinMode_write2
    \/ Timeout
    \/ watchdog_timer_isr
    \/ watchdog_timer_isr_return
    \/ watchdog_timer_isr_null

Spec == Init /\ [][Next]_vars

-----------------------------------------------------------------------------
(* Properties.                                                             *)

\* The last call made was name and it has returned.
Returned(name) == pc = "idle" /\ op = name

\* The divider set and interval table the documentation states.
SupportedDividers == {64, 512, 8192, 32768}
IntervalField(d) ==
    CASE d = 64 -> 3
      [] d = 512 -> 2
      [] d = 8192 -> 1
      [] d = 32768 -> 0

\* The bits of the low byte the register retains, but the hold bit.
ConfigBits == {WDTNMIES, WDTNMI, WDTTMSEL, WDTSSEL, 2, 1}
SameBits(x, y, bits) == \A b \in bits : HasBit(x, b) <=> HasBit(y, b)

\* C1: every value written to WDTCTL, by any operation from any reachable
\* state, carries the password 0x5A in its upper byte.
C1_EveryWriteHasPassword ==
    lastWrite # -1 => lastWrite \div 256 = 90

\* A write of the form password + (low byte AND NOT bit) has happened, from a
\* low byte with the cleared bit and the top bit set.
C1_Witness ==
    /\ pc = "pinMode_read2"
    /\ mode # NMI
    /\ HasBit(pre, WDTNMI)
    /\ HasBit(pre, WDTHOLD)
    /\ lastWrite = WDTPW + (pre % 256) - WDTNMI

\* C2: startWatchdog(c, d), for a valid clock source and each documented
\* divider 64, 512, 8192, 32768, returns 0 and leaves the mode bit clear, the
\* clock-source bit set exactly for ACLK and the interval field at the table
\* value of d.
C2_StartWatchdogTable ==
    (/\ Returned("startWatchdog")
     /\ clocksource \in {ACLK, SMCLK}
     /\ divider \in SupportedDividers)
    => /\ ret = 0
       /\ ~HasBit(WDTCTL, WDTTMSEL)
       /\ (HasBit(WDTCTL, WDTSSEL) <=> clocksource = ACLK)
       /\ WDTCTL % 4 = IntervalField(divider)

\* C3: after startWatchdog returns 0 the hold bit is clear: the watchdog is
\* counting.
C3_StartedWatchdogCounts ==
    (Returned("startWatchdog") /\ ret = 0) => ~HasBit(WDTCTL, WDTHOLD)

\* C4: startWatchdog(c, d), for a valid clock source and a divider outside
\* the documented set, returns 2 and leaves the clock-source and interval
\* bits as they were before the call.
C4_BadDividerKeepsBits ==
    (/\ Returned("startWatchdog")
     /\ clocksource \in {ACLK, SMCLK}
     /\ divider \notin SupportedDividers)
    => /\ ret = 2
       /\ SameBits(WDTCTL, pre, {WDTSSEL, 2, 1})

\* C5: with a clock source that is neither ACLK nor SMCLK both start
\* operations return 1 whatever the divider; 2 is returned only with a valid
\* clock source.
C5_ClockSourceCheckedFirst ==
    (Returned("startWatchdog") \/ Returned("startTimer"))
    => /\ clocksource \notin {ACLK, SMCLK} => ret = 1
       /\ ret = 2 => clocksource \in {ACLK, SMCLK}

\* A start operation has returned for a call with neither a valid clock
\* source nor a valid divider.
C5_Witness ==
    /\ Returned("startTimer")
    /\ clocksource \notin {ACLK, SMCLK}
    /\ divider \notin SupportedDividers
    /\ divider # 8912
    /\ ret = 1

\* C6: startWatchdogTimer(c, d, f), for a valid clock source and each
\* documented divider, returns 0 with the interrupt enabled and f in the
\* slot; from then on, until the next call of it, every entry of the
\* interrupt routine (one for each timeout flagged) calls f.
C6_TimerStartsAndDispatches ==
    [][/\ (/\ Returned("startTimer")
           /\ clocksource \in {ACLK, SMCLK}
           /\ divider \in SupportedDividers)'
          => (/\ ret = 0
              /\ HasBit(IE1, WDTIE)
              /\ watchdogFunctionToCall = function)'
       /\ (/\ Returned("startTimer")
           /\ ret = 0
           /\ invoked = -1
           /\ invoked' # -1)
          => invoked' = function
      ]_vars

\* C7: the interrupt routine never runs while the callback slot is unset.
C7_NoDispatchBeforeSet ==
    invoked # -1 => watchdogFunctionToCall # 0

\* C8: in a call of startWatchdogTimer the slot holds the new callback at
\* the step that sets the interrupt-enable bit and at the final committing
\* write.
C8_StoreThenEnable ==
    [][(/\ op = "startTimer"
        /\ invoked = -1
        /\ \/ HasBit(IE1', WDTIE) /\ ~HasBit(IE1, WDTIE)
           \/ pc = "startTimer_commit" /\ pc' = "idle")
       => watchdogFunctionToCall = function]_vars

\* C9: holdWatchdog leaves the hold bit set and every other retained bit as
\* it was, and a second holdWatchdog right after the first changes nothing.
C9_HoldPreservesAndIdempotent ==
    Returned("hold")
    => /\ HasBit(WDTCTL, WDTHOLD)
       /\ SameBits(WDTCTL, pre, ConfigBits)
       /\ again => WDTCTL = pre

\* holdWatchdog has returned a second time in a row, with other bits set.
C9_Witness ==
    /\ Returned("hold")
    /\ again
    /\ HasBit(WDTCTL, WDTTMSEL)
    /\ HasBit(WDTCTL, WDTNMI)
    /\ HasBit(WDTCTL, WDTSSEL)

\* C10: clearWatchdog writes a value with the count-clear bit set and every
\* retained bit as before the call; the register then reads as before the
\* call.
C10_ClearKeepsConfiguration ==
    Returned("clear")
    => /\ HasBit(lastWrite, WDTCNTCL)
       /\ SameBits(lastWrite, pre, ConfigBits \cup {WDTHOLD})
       /\ ~HasBit(WDTCTL, WDTCNTCL)
       /\ WDTCTL = pre

\* clearWatchdog has returned on a running interval timer with a clock
\* source and an interval selected.
C10_Witness ==
    /\ Returned("clear")
    /\ HasBit(pre, WDTTMSEL)
    /\ HasBit(pre, WDTSSEL)
    /\ pre % 4 = 3
    /\ ~HasBit(pre, WDTHOLD)

\* C11: after resetPinMode(mode, edge) the NMI-select bit is set exactly
\* when mode is NMI and the edge-select bit exactly when edge is FALLING,
\* for all four combinations: the second write keeps the result of the first.
C11_PinModeSetsBothBits ==
    Returned("pinMode")
    => /\ HasBit(WDTCTL, WDTNMI) <=> mode = NMI
       /\ HasBit(WDTCTL, WDTNMIES) <=> edge = FALLING

\* resetPinMode has returned after changing both bits, each the other way.
C11_Witness ==
    /\ Returned("pinMode")
    /\ mode = NMI
    /\ edge # FALLING
    /\ ~HasBit(pre, WDTNMI)
    /\ HasBit(pre, WDTNMIES)

\* C12: resetWatchdog makes one write, of the bare password, and leaves the
\* whole low byte zero: hold, mode, clock source, interval and both NMI bits.
C12_ResetZeroesLowByte ==
    Returned("reset")
    => /\ writes = 1
       /\ lastWrite = 23040
       /\ WDTCTL % 256 = 0

\* resetWatchdog has returned on a held interval timer with NMI selected.
C12_Witness ==
    /\ Returned("reset")
    /\ HasBit(pre, WDTHOLD)
    /\ HasBit(pre, WDTTMSEL)
    /\ HasBit(pre, WDTNMI)
    /\ pre % 4 = 3

\* The value detectWatchdog writes: the password and the low byte it read,
\* with the hold bit set.
DetectWrites ==
    lastWrite = 23040 + (pre % 256) + (IF HasBit(pre, WDTHOLD) THEN 0 ELSE 128)

\* C13 as stated: detectWatchdog writes back the low byte with the hold bit
\* set, returns true exactly when the low byte read back is non-zero, and
\* returns false when the low byte was zero before the call.
C13_DetectFalseOnZeroState ==
    Returned("detect")
    => /\ DetectWrites
       /\ ret = 1 <=> WDTCTL % 256 # 0
       /\ pre % 256 = 0 => ret = 0

\* C13 as amended: detectWatchdog writes back the low byte with the hold
\* bit set and returns true exactly when the low byte read back is non-zero;
\* the register keeps the hold bit just written, so it returns true from
\* every prior state, a zero low byte included.
C13_DetectTrueWhenRetained ==
    Returned("detect")
    => /\ DetectWrites
       /\ ret = 1 <=> WDTCTL % 256 # 0
       /\ ret = 1

\* detectWatchdog has returned for a call made with the low byte zero.
C13_Witness ==
    /\ Returned("detect")
    /\ pre % 256 = 0
    /\ WDTCTL % 256 = 128

\* The write steps of the read-modify-write operations.
ReadModifyWrites ==
    {"detect_write", "hold_write", "clear_write", "holdTimer_write",
     "resetTimer_write", "pinMode_write1", "pinMode_write2"}

\* A step of the interrupt routine with a registered callback: its entry
\* or its return.
IsrStep ==
    \/ invoked = -1 /\ invoked' > 0
    \/ invoked > 0 /\ invoked' = -1 /\ op' # "none"

\* C14: the interrupt routine, whenever it preempts the main line, leaves
\* the register, the byte the main line has read and the position of the
\* main line as they are; so at the write of every read-modify-write the
\* byte read is still the register's low byte, and the value written and the
\* register after it are those of the run without the interrupt.
C14_InterruptKeepsReadModifyWrite ==
    [][/\ IsrStep
          => UNCHANGED <<WDTCTL, tempwdt, watchdogbits, pc, op, mode, edge,
                         pre, writes, lastWrite>>
       /\ (pc \in ReadModifyWrites /\ pc' # pc /\ op' = op)
          => /\ tempwdt = WDTCTL % 256
             /\ (pc # "pinMode_write2") => tempwdt = pre % 256
      ]_vars

\* The routine is calling a registered callback between the read and the
\* write of clearWatchdog.
C14_Witness ==
    /\ pc = "clear_write"
    /\ invoked > 0

\* C15: every register write of an operation other than resetWatchdog (and
\* resetPinMode, which sets them) leaves the NMI-select and NMI-edge-select
\* bits as they were.
C15_WritesKeepNmiBits ==
    [][op' \notin {"reset", "pinMode", "none"}
       => SameBits(WDTCTL', WDTCTL, {WDTNMI, WDTNMIES})]_vars

\* C16: after startWatchdogTimer(c, d, f) returns 0 for a valid clock source
\* and a documented divider, the mode bit is set, the hold bit clear, the
\* clock-source bit set exactly for ACLK and the interval field at the table
\* value of d, the one startWatchdog uses.
C16_TimerRegisterAfterStart ==
    (/\ Returned("startTimer")
     /\ ret = 0
     /\ clocksource \in {ACLK, SMCLK}
     /\ divider \in SupportedDividers)
    => /\ HasBit(WDTCTL, WDTTMSEL)
       /\ ~HasBit(WDTCTL, WDTHOLD)
       /\ HasBit(WDTCTL, WDTSSEL) <=> clocksource = ACLK
       /\ WDTCTL % 4 = IntervalField(divider)

\* startWatchdogTimer has returned 0 for SMCLK and divider 512, called on a
\* held register with the clock-source bit set.
C16_Witness ==
    /\ Returned("startTimer")
    /\ ret = 0
    /\ clocksource = SMCLK
    /\ divider = 512
    /\ HasBit(pre, WDTHOLD)
    /\ HasBit(pre, WDTSSEL)

\* A call of a start operation that fails: one step of the main line, from
\* idle to idle, with status 1 or 2.
FailingStart ==
    /\ At("idle")
    /\ (Returned("startTimer") \/ Returned("startWatchdog"))'
    /\ ret' \in {1, 2}
    /\ invoked' = -1
    /\ writes' = 1

\* C17: a start operation that returns 1 or 2 has made exactly one register
\* write, the initial hold write, has left IE1 and the callback slot as they
\* were, and leaves the register with the hold bit set.
C17_FailedStartLeavesHeld ==
    [][/\ FailingStart
          => /\ IE1' = IE1
             /\ watchdogFunctionToCall' = watchdogFunctionToCall
             /\ lastWrite' = 23040 + 128
       /\ ((Returned("startTimer") \/ Returned("startWatchdog")) /\ ret \in {1, 2})'
          => (writes = 1 /\ HasBit(WDTCTL, WDTHOLD) /\ ~Running)'
      ]_vars

\* startWatchdogTimer has failed on its divider after an earlier call
\* enabled the interrupt and stored another callback.
C17_Witness ==
    /\ Returned("startTimer")
    /\ ret = 2
    /\ HasBit(IE1, WDTIE)
    /\ watchdogFunctionToCall # 0
    /\ watchdogFunctionToCall # function
    /\ ~HasBit(pre, WDTHOLD)

\* holdWatchdog or holdWatchdogTimer was the last call and has returned.
ReturnedHold == Returned("hold") \/ Returned("holdTimer")

\* C18 as stated: after holdWatchdog or holdWatchdogTimer has returned, and
\* before any later operation, the interrupt routine is not entered: no
\* callback is invoked.
C18_NoInvocationAfterHold ==
    [][(ReturnedHold /\ invoked = -1) => invoked' = -1]_vars

\* C18 as amended: holdWatchdog and holdWatchdogTimer leave the hold bit
\* set and the slot and IE1 as they were, no operation clears the interrupt
\* enable bit or unsets the slot, and no timeout is flagged while the hold
\* bit stays set: after the hold at most the timeout flagged before it is
\* still dispatched.
C18_HoldStopsTimeouts ==
    [][/\ (ReturnedHold' /\ pc # "idle" /\ op' = op)
          => /\ HasBit(WDTCTL', WDTHOLD)
             /\ IE1' = IE1
             /\ watchdogFunctionToCall' = watchdogFunctionToCall
       /\ op' # "none"
          => /\ HasBit(IE1, WDTIE) => HasBit(IE1', WDTIE)
             /\ watchdogFunctionToCall # 0 => watchdogFunctionToCall' # 0
       /\ (HasBit(WDTCTL, WDTHOLD) /\ HasBit(WDTCTL', WDTHOLD) /\ WDTIFG = 0)
          => WDTIFG' = 0
      ]_vars

\* holdWatchdogTimer has returned with the interrupt enabled and the
\* routine is calling the registered callback for a timeout flagged before.
C18_Witness ==
    /\ Returned("holdTimer")
    /\ HasBit(WDTCTL, WDTHOLD)
    /\ HasBit(IE1, WDTIE)
    /\ invoked > 0
    /\ invoked = watchdogFunctionToCall

\* C19: resetWatchdogTimer leaves the mode bit set and the hold, clock
\* source, interval and NMI bits as they were; it writes no count-clear bit.
C19_ResetTimerSetsModeOnly ==
    Returned("resetTimer")
    => /\ HasBit(WDTCTL, WDTTMSEL)
       /\ SameBits(WDTCTL, pre, {WDTHOLD, WDTNMIES, WDTNMI, WDTSSEL, 2, 1})
       /\ ~HasBit(lastWrite, WDTCNTCL)

\* resetWatchdogTimer has returned on a held watchdog-mode register with a
\* clock source and an interval selected: it stays held.
C19_Witness ==
    /\ Returned("resetTimer")
    /\ HasBit(pre, WDTHOLD)
    /\ ~HasBit(pre, WDTTMSEL)
    /\ HasBit(pre, WDTSSEL)
    /\ pre % 4 = 3
    /\ HasBit(WDTCTL, WDTHOLD)

\* The low byte with the hold bit set.
WithHold(low) == IF HasBit(low, WDTHOLD) THEN low ELSE low + 128

\* C20: holdWatchdogTimer and holdWatchdog, called in the same state, write
\* the same value and leave the same register, IE1 and slot: the step that
\* completes either one writes the password with the low byte of the call's
\* state and the hold bit, and changes nothing else.
C20_HoldTimerSameAsHold ==
    [][(pc \in {"hold_write", "holdTimer_write"} /\ pc' = "idle" /\ op' = op)
       => /\ lastWrite' = 23040 + WithHold(pre % 256)
          /\ WDTCTL' = 26880 + WithHold(pre % 256)
          /\ ret' = -1
          /\ UNCHANGED <<IE1, WDTIFG, watchdogFunctionToCall, invoked>>
      ]_vars

\* holdWatchdogTimer has returned on a running interval timer with the
\* interrupt enabled, a callback stored and NMI selected.
C20_Witness ==
    /\ Returned("holdTimer")
    /\ ~HasBit(pre, WDTHOLD)
    /\ HasBit(pre, WDTTMSEL)
    /\ HasBit(pre, WDTNMI)
    /\ HasBit(IE1, WDTIE)
    /\ watchdogFunctionToCall # 0
    /\ invoked = -1

====
